---- MODULE Spec2Model ----
(***************************************************************************)
(* The subprocess test harness of apple-cal-mcp: the scripts that launch   *)
(* the calendar server, write JSON-RPC requests on its stdin and wait for  *)
(* a line on its stdout.  One behaviour of the model is one run of one     *)
(* script against an arbitrary server.                                     *)
(***************************************************************************)
EXTENDS Integers, Sequences, FiniteSets, TLC

\* ------------------------------------------------------------------ bounds
\* lines the server writes to stdout during one run
MaxLines == 2
\* requests of a flat scenario that are modelled (the scripts send 3 to 9)
NSteps == 2
\* poll intervals that fit between start_time and the deadline
PollLimit == 2
\* lines the stderr pipe holds before a write to it blocks
PipeCapacity == 1
\* stderr lines written, or being written, and not yet taken from the queue
MaxErrLines == 2
\* command-line arguments given to a wrapper script
MaxArgs == 2

\* ----------------------------------------------------------------- scripts
\* scripts whose reader thread feeds a Queue that the sender polls
QueueScripts ==
    {"edge_cases", "integration", "full_mcp", "with_events", "performance", "real_world"}

\* test_mcp.py reads the pipe directly with a blocking readline
BlockingScripts == {"mcp"}

\* scripts that start one server per request with subprocess.run
OneShotScripts == {"event_management", "copy_format", "comprehensive"}

\* scripts that keep one server for the whole scenario
ProcessScripts == QueueScripts \cup BlockingScripts

\* manual_test.py writes one request and watches the server for three seconds
WatchScripts == {"manual"}

\* test_mcp_standalone.py hands its request to process.communicate
CommunicateScripts == {"standalone"}

\* test_copy_workflow.py gives one server all its requests as the input of
\* subprocess.run
BatchScripts == {"copy_workflow"}

\* scripts that start their server with subprocess.Popen
LaunchScripts == ProcessScripts \cup WatchScripts \cup CommunicateScripts

\* one-shot scripts whose helper reads 'process' in its except clause
ProbeScripts == {"real_dates"}

\* scripts that forward to the script of the same name under tools/
WrapperScripts == {"manual_wrapper", "real_world_wrapper"}

Scripts ==
    LaunchScripts \cup OneShotScripts \cup BatchScripts \cup ProbeScripts
        \cup WrapperScripts

\* ------------------------------------------------------------------ values
NoId == 0

\* the "error" member of a response; the empty one stands for its absence
NoError == [code |-> 0, message |-> ""]

ErrorObjects ==
    {[code |-> 0 - 32601, message |-> "Method not found"],
     [code |-> 0 - 32602, message |-> "Invalid params"]}

\* the "message" of an error object that has none
Absent == "absent"

\* an error object that holds a code only
BareError == [code |-> 0 - 32600, message |-> Absent]

\* a line of text; nl is the line terminator readline() leaves on it; late
\* marks a response the server wrote while the harness was awaiting the
\* answer to another request
Line(form, nl, id, member, payload, error, late) ==
    [form |-> form, nl |-> nl, id |-> id, member |-> member, payload |-> payload,
     error |-> error, late |-> late]

BlankLine == Line("blank", TRUE, NoId, "none", "none", NoError, FALSE)
TextLine == Line("text", TRUE, NoId, "none", "none", NoError, FALSE)
BraceLine == Line("brace", TRUE, NoId, "none", "none", NoError, FALSE)
Notification == Line("obj", TRUE, NoId, "none", "none", NoError, FALSE)
ResultLine(id, payload, late) == Line("obj", TRUE, id, "result", payload, NoError, late)
ErrorLine(id, error, late) == Line("obj", TRUE, id, "error", "none", error, late)
SentinelNone == Line("sentinel", FALSE, NoId, "none", "none", NoError, FALSE)

\* what a sender hands back to the scenario
Value(t, id, member, payload, error) ==
    [t |-> t, id |-> id, member |-> member, payload |-> payload, error |-> error]

NoneVal == Value("None", NoId, "none", "none", NoError)
RawResponse == Value("raw_response", NoId, "none", "none", NoError)
NoResponse == Value("no_response", NoId, "none", "none", NoError)
InvalidJson == Value("invalid_json", NoId, "none", "none", NoError)

\* the sender does not return: an exception leaves it
Raised == Value("raise", NoId, "none", "none", NoError)

\* str.strip(): the terminator and surrounding blanks are removed
Strip(line) == [line EXCEPT !.nl = FALSE]

\* truth value of a queue item in "if line"
Truthy(line) ==
    /\ line.form # "sentinel"
    /\ ~(line.form = "blank" /\ ~line.nl)

\* line.startswith('{"')
StartsWithBraceQuote(line) == line.form \in {"brace", "obj"}

\* json.loads(line): a decoded object, or JSONDecodeError
JsonLoads(line) ==
    IF line.form = "obj"
    THEN [ok |-> TRUE,
          val |-> Value("response", line.id, line.member, line.payload, line.error)]
    ELSE [ok |-> FALSE, val |-> NoneVal]

\* ------------------------------------------------------------ the scenarios
\* expect_error of the nine requests of test_edge_cases
EdgeExpectError == <<TRUE, FALSE, TRUE, TRUE, FALSE, FALSE, FALSE, TRUE, TRUE>>

ExpectError(s, k) == IF s = "edge_cases" THEN EdgeExpectError[k] ELSE FALSE

\* the "id" member of the k-th request of a script
WithEventsIds == <<1, 2, 2, 2, 3, 4, 5>>

Min(a, b) == IF a < b THEN a ELSE b

\* requests a script sends when every exchange succeeds
ScriptSteps(s) ==
    CASE s = "edge_cases" -> 9
      [] s = "integration" -> 5
      [] s = "full_mcp" -> 3
      [] s = "with_events" -> 7
      [] s = "performance" -> 4
      [] s = "real_world" -> 4
      [] s = "mcp" -> 5
      [] s = "event_management" -> 3
      [] s = "copy_format" -> 8
      [] s = "comprehensive" -> 3
      [] s = "manual" -> 1
      [] s = "standalone" -> 1
      [] s = "copy_workflow" -> 2
      [] s = "real_dates" -> 3
      [] OTHER -> 0

\* scenarios whose steps use values of earlier results are modelled whole,
\* the flat scenarios up to NSteps
StepCount(s) ==
    IF s \in {"integration"} \cup OneShotScripts \cup ProbeScripts
    THEN ScriptSteps(s)
    ELSE Min(NSteps, ScriptSteps(s))

\* the line that reaches stdin without its terminator
FrameNoNewline(k, id) == [step |-> k, id |-> id, objects |-> 1, nl |-> FALSE]

\* json.dumps(request) + '\n': one line that holds one JSON object
Frame(k, id) == [step |-> k, id |-> id, objects |-> 1, nl |-> TRUE]

\* the last modelled step of test_mcp.py is the last step of the script,
\* "Invalid Method"; the steps before it are the first ones of the script
LastOfMcp(k) == k > 1 /\ k = StepCount("mcp")

ReqId(s, k) ==
    IF s = "with_events" THEN WithEventsIds[k]
    ELSE IF s = "mcp" /\ LastOfMcp(k) THEN ScriptSteps("mcp")
    ELSE k

\* the earlier step whose result the request of step k is built from, 0 if
\* the request is built from constants
Needs(s, k) ==
    CASE s = "integration" /\ k \in {4, 5} -> 3
      [] s \in {"event_management", "comprehensive"} /\ k \in {2, 3} -> 1
      [] s = "copy_format" /\ k \in {2, 3, 4, 5} -> 1
      [] s = "copy_format" /\ k = 6 -> 2
      [] s = "copy_format" /\ k = 7 -> 3
      [] s = "copy_format" /\ k = 8 -> 4
      [] OTHER -> 0

\* error objects a script tells apart
ErrorsOf(s) ==
    IF s = "edge_cases" THEN ErrorObjects \cup {BareError}
    ELSE IF s = "mcp" THEN ErrorObjects
    ELSE {[code |-> 0 - 32602, message |-> "Invalid params"]}

\* content[0]["text"] shapes a script looks into
PayloadsOf(s) ==
    CASE s = "integration" -> {"none", "bad", "avail"}
      [] s = "real_world" -> {"none", "bad", "ok"}
      [] s = "with_events" -> {"none", "bad"}
      [] OTHER -> {"none"}

VARIABLES
    script,     \* the script that is run
    pc,         \* position of the main thread
    step,       \* number of the request being sent or awaited
    proc,       \* the server process: "none", "running", "blocked", "exited"
    signals,    \* signals sent to the server, in order
    outPipe,    \* lines written to stdout and not yet read by the harness
    emitted,    \* number of lines the server has written
    pump,       \* the read_stdout thread: "none", "running", "done"
    stdoutQ,    \* stdout_queue
    elapsed,    \* time.time() - start_time, in poll intervals
    written,    \* step and id of the requests written to a server, in order
    rets,       \* value returned by each finished exchange, in order
    report,     \* what the script printed about each step, in order
    quiet,      \* the server wrote nothing since the last request was sent
    warm,       \* the delay that lets the server start has elapsed
    errPipe,    \* number of lines in the stderr pipe
    stderrQ,    \* number of lines in stderr_queue
    results,    \* the results dict of run_all_tests, in insertion order
    ran,        \* the suites of run_all_tests that have returned
    status,     \* how the script ended, as its parent sees it
    argv,       \* sys.argv of a wrapper script
    forwarded,  \* the command line a wrapper gave to subprocess.call
    child       \* how the script started by a wrapper ended

vars == <<script, pc, step, proc, signals, outPipe, emitted, pump, stdoutQ,
          elapsed, written, rets, report, quiet, warm, errPipe, stderrQ,
          results, ran, status, argv, forwarded, child>>

\* what belongs to run_all_tests and to the wrapper scripts
runVars == <<results, ran, status, argv, forwarded, child>>

\* ------------------------------------------------------------ exit status
\* a process that has not ended
NoStatus == [kind |-> "none", n |-> 0]

\* a process that called exit(n), and one that a signal ended
Exited(n) == [kind |-> "exit", n |-> n]
Signalled(n) == [kind |-> "signal", n |-> n]

\* the arguments a caller can give
ArgWords == {"-v", "x"}

\* sys.argv: the path of the script and up to MaxArgs arguments
Argvs ==
    UNION {{<<"wrapper.py">> \o [i \in 1..n |-> f[i]] : f \in [1..n -> ArgWords]} :
              n \in 0..MaxArgs}

\* ------------------------------------------------------------------- server
\* ids the server has been asked about
AskedIds == {written[i].id : i \in 1..Len(written)}

\* lines an arbitrary server may write next
\* a request is written and its sender has not returned
Pending == Len(written) = Len(rets) + 1

Late(i) == Pending /\ i # written[Len(written)].id

\* the server's answer to a line it cannot parse: an error with id null
ParseErrorLine ==
    ErrorLine(NoId, [code |-> 0 - 32700, message |-> "Parse error"], FALSE)

EmitSet ==
    {BlankLine, TextLine, BraceLine, Notification}
    \cup (IF pc = "inject_poll" THEN {ParseErrorLine} ELSE {})
    \cup {ErrorLine(i, e, Late(i)) : i \in AskedIds, e \in ErrorsOf(script)}
    \cup {ResultLine(i, p, Late(i)) : i \in AskedIds, p \in PayloadsOf(script)}

Init ==
    /\ script \in Scripts
    /\ pc = "NotStarted"
    /\ step = 0
    /\ proc = "none"
    /\ signals = <<>>
    /\ outPipe = <<>>
    /\ emitted = 0
    /\ pump = "none"
    /\ stdoutQ = <<>>
    /\ elapsed = 0
    /\ written = <<>>
    /\ rets = <<>>
    /\ report = <<>>
    /\ quiet = TRUE
    /\ warm = FALSE
    /\ errPipe = 0
    /\ stderrQ = 0
    /\ results = <<>>
    /\ ran = <<>>
    /\ status = NoStatus
    /\ argv \in (IF script \in WrapperScripts THEN Argvs ELSE {<<>>})
    /\ forwarded = <<>>
    /\ child = NoStatus


\* ---------------------------------------------------------------- senders
\* Classify with the marks of the expect_error branch exchanged
ClassifyExchanged(response, expect_error) ==
    IF expect_error
    THEN IF response.member = "error" THEN "mismatch" ELSE "success"
    ELSE IF response.member = "result" THEN "success" ELSE "protocol_error"

\* the outcome a sender prints for a decoded response
Classify(response, expect_error) ==
    IF expect_error
    THEN IF response.member = "error" THEN "success" ELSE "mismatch"
    ELSE IF response.member = "result" THEN "success" ELSE "protocol_error"

\* result of one loop iteration that took a line from the queue:
\* done: the sender returns ret; out: what it printed ("" for nothing);
\* sleep: the iteration ends in time.sleep
Iter(done, ret, out, sleep) ==
    [done |-> done, ret |-> ret, out |-> out, sleep |-> sleep]

\* response.get('error', {}).get('message', 'Unknown')
ErrorMessage(response) ==
    IF response.member = "error" /\ response.error.message # Absent
    THEN response.error.message
    ELSE "Unknown"

\* EdgeCasesDetail printing the default text for an unexpected error
EdgeCasesDetailDefault(response, expect_error) ==
    IF expect_error
    THEN IF response.member = "error" THEN response.error.message ELSE ""
    ELSE IF response.member = "result" THEN "" ELSE "Unknown"

\* the text a sender of test_edge_cases prints after the mark of the outcome
EdgeCasesDetail(response, expect_error) ==
    IF expect_error
    THEN IF response.member = "error" THEN response.error.message ELSE ""
    ELSE IF response.member = "result" THEN "" ELSE ErrorMessage(response)

\* response['error']['message'] raises KeyError
SubscriptFails(response, expect_error) ==
    expect_error /\ response.member = "error" /\ response.error.message = Absent

EdgeCasesLine(line, expect_error) ==
    IF Truthy(line) /\ StartsWithBraceQuote(line)
    THEN IF JsonLoads(line).ok
         THEN IF SubscriptFails(JsonLoads(line).val, expect_error)
              THEN Iter(TRUE, Raised, "", FALSE)
              ELSE Iter(TRUE, JsonLoads(line).val,
                        Classify(JsonLoads(line).val, expect_error), FALSE)
         ELSE Iter(FALSE, NoneVal, "", TRUE)
    ELSE Iter(FALSE, NoneVal, "", TRUE)

IntegrationLine(line) ==
    IF Truthy(line) /\ StartsWithBraceQuote(line)
    THEN IF JsonLoads(line).ok
         THEN Iter(TRUE, JsonLoads(line).val, "success", FALSE)
         ELSE Iter(FALSE, NoneVal, "", TRUE)
    ELSE Iter(FALSE, NoneVal, "", TRUE)

FullMcpLine(line) ==
    IF Truthy(line)
    THEN IF JsonLoads(line).ok
         THEN Iter(TRUE, JsonLoads(line).val, "response", FALSE)
         ELSE Iter(TRUE, RawResponse, "non_json", FALSE)
    ELSE Iter(FALSE, NoneVal, "", TRUE)

WithEventsLine(line) ==
    IF Truthy(line) /\ StartsWithBraceQuote(line)
    THEN IF JsonLoads(line).ok
         THEN Iter(TRUE, JsonLoads(line).val, "", FALSE)
         ELSE Iter(FALSE, NoneVal, "", FALSE)
    ELSE Iter(FALSE, NoneVal, "", TRUE)

PerformanceLine(line) ==
    IF Truthy(line) /\ StartsWithBraceQuote(line)
    THEN IF JsonLoads(line).ok
         THEN Iter(TRUE, JsonLoads(line).val, "timed", FALSE)
         ELSE Iter(FALSE, NoneVal, "timed", TRUE)
    ELSE Iter(FALSE, NoneVal, "", TRUE)

RealWorldLine(line) ==
    IF Truthy(line) /\ StartsWithBraceQuote(line)
    THEN IF JsonLoads(line).ok
         THEN IF JsonLoads(line).val.member = "result"
              THEN IF JsonLoads(line).val.payload = "ok"
                   THEN Iter(TRUE, Value("payload", line.id, "result", "ok", NoError), "", FALSE)
                   ELSE Iter(FALSE, NoneVal, "", TRUE)
              ELSE Iter(TRUE, NoneVal, "error", FALSE)
         ELSE Iter(FALSE, NoneVal, "", TRUE)
    ELSE Iter(FALSE, NoneVal, "", TRUE)

ProcessLine(s, line, expect_error) ==
    CASE s = "edge_cases" -> EdgeCasesLine(line, expect_error)
      [] s = "integration" -> IntegrationLine(line)
      [] s = "full_mcp" -> FullMcpLine(line)
      [] s = "with_events" -> WithEventsLine(line)
      [] s = "performance" -> PerformanceLine(line)
      [] OTHER -> RealWorldLine(line)

\* what a sender prints when its loop runs out
TimeoutPrint(s) == IF s = "with_events" THEN "" ELSE "timeout"

\* ------------------------------------------------------------------ drivers
HasError(v) ==
    \/ v.t = "response" /\ v.member = "error"
    \/ v.t \in {"no_response", "invalid_json"}

HasResult(v) == v.t = "response" /\ v.member = "result"

\* "not response": None is the only falsy value a sender returns
Falsy(v) == v.t = "None"

\* FullConversationNext going on to the detail requests after any answer
FullConversationBlind(k, v) ==
    CASE k \in {1, 2} -> IF Falsy(v) \/ HasError(v) THEN 0 ELSE k + 1
      [] k = 3 -> 4
      [] k = 4 -> 5
      [] OTHER -> 0

\* full_conversation: the step that follows step k, 0 for return
FullConversationNext(k, v) ==
    CASE k \in {1, 2} -> IF Falsy(v) \/ HasError(v) THEN 0 ELSE k + 1
      [] k = 3 -> IF ~Falsy(v) /\ HasResult(v) /\ v.payload = "avail" THEN 4 ELSE 0
      [] k = 4 -> 5
      [] OTHER -> 0

\* the scenario raises instead of going on to a step
Crash == 0 - 1

\* response["error"]["code"] of an error that is a string raises TypeError
CodeSubscriptFails(v) == v.t \in {"no_response", "invalid_json"}

\* the verdict of test_mcp_server on the answer to the invalid method
InvalidMethodCheck(v) ==
    IF v.t = "response" /\ v.member = "error" /\ v.error.code = 0 - 32601
    THEN "success"
    ELSE "mismatch"

\* test_mcp_server: a failed initialize returns at once
McpServerNext(k, v) ==
    IF k = 1 /\ HasError(v) THEN 0
    ELSE IF k < StepCount("mcp") THEN k + 1
    ELSE IF LastOfMcp(k) /\ CodeSubscriptFails(v) THEN Crash
    ELSE 0

\* steps of test_real_calendar_scenarios that decode content[0]["text"]
\* outside any try of their own
WithEventsUnwraps(k) == k <= 5

\* test_real_calendar_scenarios: json.loads of the text raises
WithEventsNext(k, v) ==
    IF WithEventsUnwraps(k) /\ HasResult(v) /\ v.payload = "bad" THEN Crash
    ELSE IF k < StepCount("with_events") THEN k + 1 ELSE 0

\* the value an earlier step returned
RetOf(rs, k) ==
    IF \E i \in 1..Len(rs) : rs[i].step = k
    THEN rs[CHOOSE i \in 1..Len(rs) : rs[i].step = k].val
    ELSE NoneVal

\* "result and result.get('success')": only the decoded payload has success
Success(v) == v.t = "data"

\* result['event']['id'] raises KeyError when the payload has no event
HasEventId(v) == v.t = "data" /\ v.payload = "event"

\* test_event_lifecycle
EventLifecycleNext(k, v) ==
    CASE k = 1 -> IF ~Success(v) THEN 0 ELSE IF HasEventId(v) THEN 2 ELSE Crash
      [] k = 2 -> 3
      [] OTHER -> 0

\* test_event_management of test_comprehensive
ComprehensiveNext(k, v) ==
    CASE k = 1 -> IF ~Success(v) THEN 0 ELSE IF HasEventId(v) THEN 2 ELSE Crash
      [] k = 2 -> 3
      [] OTHER -> 0

\* the optional deletes that end test_copy_format_functionality
CopyFormatCleanup(k, sick, duration) ==
    IF k < 7 /\ Success(sick)
    THEN IF HasEventId(sick) THEN 7 ELSE Crash
    ELSE IF Success(duration)
         THEN IF HasEventId(duration) THEN 8 ELSE Crash
         ELSE 0

\* test_copy_format_functionality
CopyFormatNext(k, v, rs) ==
    CASE k = 1 -> IF ~Success(v) THEN 0 ELSE IF HasEventId(v) THEN 2 ELSE Crash
      [] k = 2 -> IF ~Success(v) THEN 0 ELSE IF HasEventId(v) THEN 3 ELSE Crash
      [] k \in {3, 4, 5} -> k + 1
      [] k = 6 -> CopyFormatCleanup(6, RetOf(rs, 3), RetOf(rs, 4))
      [] k = 7 -> CopyFormatCleanup(7, RetOf(rs, 3), RetOf(rs, 4))
      [] OTHER -> 0

\* the step that follows step k which returned v: 0 when the scenario
\* returns, Crash when it raises
NextStep(s, k, v, rs) ==
    CASE s = "integration" -> FullConversationNext(k, v)
      [] s = "mcp" -> McpServerNext(k, v)
      [] s = "with_events" -> WithEventsNext(k, v)
      [] s = "event_management" -> EventLifecycleNext(k, v)
      [] s = "comprehensive" -> ComprehensiveNext(k, v)
      [] s = "copy_format" -> CopyFormatNext(k, v, rs)
      [] OTHER -> IF k < StepCount(s) THEN k + 1 ELSE 0

\* the detail printed with an outcome
Detail(s, line, expect_error) ==
    CASE s = "edge_cases" /\ JsonLoads(line).ok ->
             EdgeCasesDetail(JsonLoads(line).val, expect_error)
      [] s = "real_world" /\ JsonLoads(line).ok -> ErrorMessage(JsonLoads(line).val)
      [] OTHER -> ""

Printed(k, out, detail) ==
    IF out = "" THEN <<>> ELSE <<[step |-> k, out |-> out, detail |-> detail]>>

\* what the scenario prints about the value a sender returned
ScenarioPrint(s, k, v) ==
    IF s = "mcp" /\ LastOfMcp(k)
    THEN <<[step |-> k,
            out |-> IF CodeSubscriptFails(v) THEN "exception" ELSE InvalidMethodCheck(v),
            detail |-> ""]>>
    ELSE <<>>

\* the sender returns v; the scenario goes on to its next request or ends
Resolve(v, out, detail, how) ==
    LET next == IF v = Raised THEN Crash ELSE NextStep(script, step, v, rets) IN
    /\ rets' = Append(rets, [step |-> step, req |-> ReqId(script, step), val |-> v,
                             how |-> how])
    /\ report' = report \o Printed(step, out, detail) \o ScenarioPrint(script, step, v)
    /\ IF next = 0
       THEN /\ pc' = IF script = "edge_cases" THEN "inject"
                     ELSE IF script \in ProcessScripts THEN "finally" ELSE "done"
            /\ step' = step
       ELSE IF next = Crash
       THEN /\ pc' = IF script \in ProcessScripts THEN "finally" ELSE "crashed"
            /\ step' = step
       ELSE /\ pc' = IF script \in ProcessScripts THEN "send" ELSE "tool"
            /\ step' = next

\* ---------------------------------------------------------------- lifecycle
\* subprocess.Popen returns; test_mcp_standalone goes straight on to its
\* request
Launch ==
    /\ pc = "NotStarted"
    /\ script \in LaunchScripts
    /\ proc' = "running"
    /\ pump' = IF script \in QueueScripts THEN "running" ELSE "none"
    /\ pc' = IF script \in CommunicateScripts THEN "communicate" ELSE "warmup"
    /\ step' = IF script \in CommunicateScripts THEN 1 ELSE step
    /\ UNCHANGED <<script, runVars, errPipe, stderrQ, warm, signals, outPipe, emitted, stdoutQ, elapsed,
                   written, rets, report, quiet>>

\* scripts that call Popen inside their try block
LaunchInTry(s) == s \in BlockingScripts \cup WatchScripts

\* subprocess.Popen raises (no executable, no permission)
LaunchFails ==
    /\ pc = "NotStarted"
    /\ script \in LaunchScripts
    /\ pc' = IF LaunchInTry(script) THEN "finally" ELSE "failed"
    /\ report' = IF LaunchInTry(script)
                 THEN Append(report, [step |-> 0, out |-> "exception", detail |-> ""])
                 ELSE report
    /\ UNCHANGED <<script, runVars, errPipe, stderrQ, warm, step, proc, signals, outPipe, emitted, pump, stdoutQ,
                   elapsed, written, rets, quiet>>

WarmUp ==
    /\ pc = "warmup"
    /\ warm' = TRUE
    /\ pc' = "send"
    /\ step' = 1
    /\ UNCHANGED <<script, runVars, errPipe, stderrQ, proc, signals, outPipe, emitted, pump, stdoutQ, elapsed,
                   written, rets, report, quiet>>

\* SendRequest writing into a broken pipe without an exception
SendRequestUnbroken ==
    /\ pc = "send"
    /\ report' = Append(report, [step |-> step, out |-> "description", detail |-> ""])
    /\ written' = Append(written, Frame(step, ReqId(script, step)))
    /\ elapsed' = 0
    /\ quiet' = TRUE
    /\ pc' = IF script \in QueueScripts THEN "poll"
             ELSE IF script \in WatchScripts THEN "watch" ELSE "readline"
    /\ UNCHANGED <<script, runVars, errPipe, stderrQ, warm, step, proc, signals, outPipe, emitted, pump, stdoutQ, rets>>

\* stdin.write + flush; a server that has exited breaks the pipe and the
\* exception leaves the scenario
SendRequest ==
    /\ pc = "send"
    /\ report' = Append(report, [step |-> step, out |-> "description", detail |-> ""])
    /\ IF proc = "exited"
       THEN /\ pc' = "finally"
            /\ UNCHANGED <<written, elapsed, quiet>>
       ELSE /\ written' = Append(written, Frame(step, ReqId(script, step)))
            /\ elapsed' = 0
            /\ quiet' = TRUE
            /\ pc' = IF script \in QueueScripts THEN "poll"
                     ELSE IF script \in WatchScripts THEN "watch" ELSE "readline"
    /\ UNCHANGED <<script, runVars, errPipe, stderrQ, warm, step, proc, signals, outPipe, emitted, pump, stdoutQ, rets>>

\* senders that look at stderr_queue in every turn that does not return
ChecksStderr == {"integration", "full_mcp"}

\* "check stderr": stderr_queue.get_nowait() takes a line if there is one
StderrCheck(s, q) ==
    IF s \in ChecksStderr /\ q > 0 THEN q - 1 ELSE q

\* one turn of "while time.time() - start_time < T"
Poll ==
    /\ pc = "poll"
    /\ elapsed < PollLimit
    /\ IF stdoutQ = <<>>
       THEN /\ \E e \in (elapsed + 1)..PollLimit : elapsed' = e
            /\ stderrQ' = StderrCheck(script, stderrQ)
            /\ UNCHANGED <<pc, step, stdoutQ, rets, report>>
       ELSE LET line == Head(stdoutQ)
                r == ProcessLine(script, line, ExpectError(script, step)) IN
            /\ stdoutQ' = Tail(stdoutQ)
            /\ IF r.done
               THEN /\ Resolve(r.ret, r.out, Detail(script, line, ExpectError(script, step)),
                               IF r.ret = Raised THEN "raise" ELSE "line")
                    /\ UNCHANGED <<elapsed, stderrQ>>
               ELSE /\ report' = report \o Printed(step, r.out, "")
                    /\ \E e \in (IF r.sleep THEN elapsed + 1 ELSE elapsed)..PollLimit :
                          elapsed' = e
                    /\ stderrQ' = StderrCheck(script, stderrQ)
                    /\ UNCHANGED <<pc, step, rets>>
    /\ UNCHANGED <<script, runVars, errPipe, warm, proc, signals, outPipe, emitted, pump, written, quiet>>

\* Timeout throwing away the lines that wait in the queue
TimeoutFlushing ==
    /\ pc = "poll"
    /\ elapsed >= PollLimit
    /\ Resolve(NoneVal, TimeoutPrint(script), "", "timeout")
    /\ stdoutQ' = <<>>
    /\ UNCHANGED <<script, runVars, errPipe, stderrQ, warm, proc, signals, outPipe, emitted, pump,
                   elapsed, written, quiet>>

\* the loop condition fails: the sender returns None
Timeout ==
    /\ pc = "poll"
    /\ elapsed >= PollLimit
    /\ Resolve(NoneVal, TimeoutPrint(script), "", "timeout")
    /\ UNCHANGED <<script, runVars, errPipe, stderrQ, warm, proc, signals, outPipe, emitted, pump, stdoutQ, elapsed,
                   written, quiet>>

\* the number the script gives its malformed request
InjectStep == ScriptSteps("edge_cases") + 1

\* test 10 of test_edge_cases: the malformed line is written and flushed
Inject ==
    /\ pc = "inject"
    /\ report' = Append(report, [step |-> InjectStep, out |-> "inject", detail |-> ""])
    /\ IF proc = "exited"
       THEN /\ pc' = "finally"
            /\ UNCHANGED <<elapsed, quiet>>
       ELSE /\ elapsed' = 0
            /\ quiet' = TRUE
            /\ pc' = "inject_poll"
    /\ UNCHANGED <<script, runVars, errPipe, stderrQ, warm, step, proc, signals, outPipe, emitted, pump, stdoutQ,
                   written, rets>>

\* '"error"' in line
MentionsError(line) == line.form = "obj" /\ line.member = "error"

\* one turn of the loop that follows the malformed line
InjectPoll ==
    /\ pc = "inject_poll"
    /\ elapsed < PollLimit
    /\ IF stdoutQ = <<>>
       THEN /\ \E e \in (elapsed + 1)..PollLimit : elapsed' = e
            /\ UNCHANGED <<pc, stdoutQ, report>>
       ELSE LET line == Head(stdoutQ) IN
            /\ stdoutQ' = Tail(stdoutQ)
            /\ IF Truthy(line) /\ MentionsError(line)
               THEN /\ report' = Append(report, [step |-> InjectStep, out |-> "handled",
                                                 detail |-> ""])
                    /\ pc' = "finally"
                    /\ UNCHANGED elapsed
               ELSE /\ \E e \in (elapsed + 1)..PollLimit : elapsed' = e
                    /\ UNCHANGED <<pc, report>>
    /\ UNCHANGED <<script, runVars, errPipe, stderrQ, warm, step, proc, signals, outPipe, emitted, pump, written,
                   rets, quiet>>

\* three seconds have passed: the loop ends and nothing is printed
InjectExpire ==
    /\ pc = "inject_poll"
    /\ elapsed >= PollLimit
    /\ pc' = "finally"
    /\ UNCHANGED <<script, runVars, errPipe, stderrQ, warm, step, proc, signals, outPipe, emitted, pump, stdoutQ,
                   elapsed, written, rets, report, quiet>>

\* send_mcp_request: process.stdout.readline() returns a line or, at end of
\* stream, the empty string
ReadLine ==
    /\ pc = "readline"
    /\ IF outPipe # <<>>
       THEN /\ outPipe' = Tail(outPipe)
            /\ LET line == Strip(Head(outPipe)) IN
               IF ~Truthy(line)
               THEN Resolve(NoResponse, "received", "", "line")
               ELSE IF JsonLoads(line).ok
                    THEN Resolve(JsonLoads(line).val, "received", "", "line")
                    ELSE Resolve(InvalidJson, "received", "", "line")
       ELSE /\ proc = "exited"
            /\ Resolve(NoResponse, "received", "", "eof")
            /\ UNCHANGED outPipe
    /\ UNCHANGED <<script, runVars, errPipe, stderrQ, warm, proc, signals, emitted, pump, stdoutQ, elapsed, written, quiet>>

\* GuardsCleanup of a finally block that cleans up without asking
GuardsCleanupNever(s) == FALSE

\* scripts whose finally block asks whether 'process' is among the locals
GuardsCleanup(s) == s \in BlockingScripts \cup WatchScripts

\* the finally block finds no process to clean up
SkipCleanup ==
    /\ pc = "finally"
    /\ GuardsCleanup(script)
    /\ proc = "none"
    /\ pc' = "failed"
    /\ UNCHANGED <<script, runVars, errPipe, stderrQ, warm, step, proc, signals, outPipe, emitted, pump, stdoutQ,
                   elapsed, written, rets, report, quiet>>

\* process.terminate()
Terminate ==
    /\ pc = "finally"
    /\ GuardsCleanup(script) => proc # "none"
    /\ signals' = Append(signals, "TERM")
    /\ pc' = "wait"
    /\ UNCHANGED <<script, runVars, errPipe, stderrQ, warm, step, proc, outPipe, emitted, pump, stdoutQ, elapsed,
                   written, rets, report, quiet>>

\* process.wait returns because the server is gone
WaitReturn ==
    /\ pc = "wait"
    /\ proc = "exited"
    /\ pc' = "Terminated"
    /\ UNCHANGED <<script, runVars, errPipe, stderrQ, warm, step, proc, signals, outPipe, emitted, pump, stdoutQ,
                   elapsed, written, rets, report, quiet>>

\* scripts that pass timeout=2 to process.wait
HasGracePeriod(s) == s \in QueueScripts \cup WatchScripts

\* TimeoutExpired after the grace period: process.kill()
WaitExpire ==
    /\ pc = "wait"
    /\ proc \in {"running", "blocked"}
    /\ HasGracePeriod(script)
    /\ signals' = Append(signals, "KILL")
    /\ proc' = "exited"
    /\ pc' = "Terminated"
    /\ UNCHANGED <<script, runVars, errPipe, stderrQ, warm, step, outPipe, emitted, pump, stdoutQ, elapsed, written,
                   rets, report, quiet>>

\* ----------------------------------------------------------- one-shot tool
\* what one run of the server under subprocess.run can come to
ToolRuns ==
    {"launch_failed", "nonzero_exit", "expired", "not_json", "error", "no_content",
     "bad_payload", "not_success", "success", "success_no_event"}

\* the value test_mcp_tool returns
ToolValue(run) ==
    CASE run \in {"launch_failed", "nonzero_exit", "expired", "not_json", "bad_payload"} ->
             NoneVal
      [] run = "error" ->
             Value("response", 1, "error", "none",
                   [code |-> 0 - 32602, message |-> "Invalid params"])
      [] run = "no_content" -> Value("response", 1, "result", "none", NoError)
      [] run = "not_success" -> Value("response", 1, "result", "ok", NoError)
      [] run = "success" -> Value("data", 1, "result", "event", NoError)
      [] OTHER -> Value("data", 1, "result", "noevent", NoError)

\* the line test_mcp_tool prints about the run
ToolPrint(s, run) ==
    CASE run \in {"launch_failed", "nonzero_exit", "expired", "not_json", "bad_payload"} ->
             "error"
      [] run \in {"success", "success_no_event"} -> "success"
      [] run = "not_success" -> "failed"
      [] run = "error" -> IF s = "comprehensive" THEN "error" ELSE "unexpected_format"
      [] OTHER -> IF s = "comprehensive" THEN "" ELSE "unexpected_format"

\* the UnboundLocalError that leaves the helper of test_real_dates
RaisedUnbound == Value("unbound", NoId, "none", "none", NoError)

\* subprocess.run raised, so 'process' was never bound
Unbound(run) == run \in {"launch_failed", "expired"}

\* test_mcp_tool of test_real_dates: "if process:" in the except clause
\* raises UnboundLocalError when 'process' was never bound; every document
\* that parses is returned as it is
HelperValue(s, run) ==
    IF s \in ProbeScripts
    THEN IF Unbound(run) THEN RaisedUnbound
         ELSE IF ToolValue(run) = NoneVal THEN NoneVal
         ELSE IF run = "error" THEN ToolValue(run)
         ELSE Value("response", 1, "result",
                    IF run = "no_content" THEN "none" ELSE "ok", NoError)
    ELSE ToolValue(run)

\* what the helper of test_real_dates prints: the error, the events found or
\* the structure of the response
HelperPrint(s, run) ==
    IF s \in ProbeScripts
    THEN IF ToolValue(run) = NoneVal THEN "error"
         ELSE IF run \in {"error", "no_content"} THEN "" ELSE "found"
    ELSE ToolPrint(s, run)

\* the scenario function is entered
StartScenario ==
    /\ pc = "NotStarted"
    /\ script \in OneShotScripts \cup BatchScripts \cup ProbeScripts
    /\ pc' = IF script \in BatchScripts THEN "batch" ELSE "tool"
    /\ step' = 1
    /\ UNCHANGED <<script, runVars, errPipe, stderrQ, warm, proc, signals, outPipe, emitted, pump, stdoutQ, elapsed,
                   written, rets, report, quiet>>

\* test_mcp_tool: one server is started, given the request and awaited
ToolCall ==
    /\ pc = "tool"
    /\ \E run \in ToolRuns :
          /\ written' = IF run = "launch_failed"
                        THEN written
                        ELSE Append(written, Frame(step, 1))
          /\ rets' = Append(rets, [step |-> step, req |-> 1, val |-> HelperValue(script, run),
                                   how |-> "run"])
          /\ report' = report \o <<[step |-> step, out |-> "description", detail |-> ""]>>
                              \o Printed(step, HelperPrint(script, run), "")
          /\ LET v == HelperValue(script, run)
                 next == IF v = RaisedUnbound THEN Crash
                         ELSE NextStep(script, step, v, rets) IN
             IF next = 0
             THEN /\ pc' = IF script = "comprehensive" THEN "results" ELSE "done"
                  /\ step' = step
             ELSE IF next = Crash THEN pc' = "crashed" /\ step' = step
             ELSE pc' = "tool" /\ step' = next
    /\ UNCHANGED <<script, runVars, errPipe, stderrQ, warm, proc, signals, outPipe, emitted, pump, stdoutQ, elapsed, quiet>>

\* -------------------------------------------------------- run_all_tests
\* the suites of test_comprehensive, in the order they run
SuiteNames ==
    <<"event_management", "calendar_filtering", "availability_checking", "copy_format">>

\* the run of a helper call gave a payload with success true
RunSucceeded(run) == run \in {"success", "success_no_event"}

\* the dict literal of run_all_tests: test_event_management has returned
\* "create_result is not None", the other three entries are the constant True
BuildResults ==
    /\ pc = "results"
    /\ results' = <<[name |-> SuiteNames[1], passed |-> RetOf(rets, 1) # NoneVal]>>
                     \o [i \in 1..3 |-> [name |-> SuiteNames[i + 1], passed |-> TRUE]]
    /\ ran' = <<[name |-> SuiteNames[1], ok |-> Success(RetOf(rets, 1))]>>
    /\ pc' = "suites"
    /\ UNCHANGED <<script, status, argv, forwarded, child, errPipe, stderrQ, warm, step,
                   proc, signals, outPipe, emitted, pump, stdoutQ, elapsed, written, rets,
                   report, quiet>>

\* test_calendar_filtering, test_availability_checking and test_copy_format
\* run after the dict is built; what their helper calls return is not kept,
\* and test_copy_format subscripts the event of its template
RunSuite ==
    /\ pc = "suites"
    /\ \E run \in ToolRuns :
          LET name == SuiteNames[Len(ran) + 1] IN
          /\ report' = Append(report, [step |-> 0, out |-> ToolPrint(script, run),
                                       detail |-> name])
          /\ IF name = "copy_format" /\ run = "success_no_event"
             THEN pc' = "crashed" /\ UNCHANGED ran
             ELSE /\ ran' = Append(ran, [name |-> name, ok |-> RunSucceeded(run)])
                  /\ pc' = IF Len(ran) + 1 = Len(SuiteNames) THEN "summary" ELSE "suites"
    /\ UNCHANGED <<script, results, status, argv, forwarded, child, errPipe, stderrQ, warm,
                   step, proc, signals, outPipe, emitted, pump, stdoutQ, elapsed, written,
                   rets, quiet>>

\* "PASSED" if passed else "FAILED"
SummaryLine(entry) ==
    [step |-> 0, out |-> IF entry.passed THEN "PASSED" ELSE "FAILED", detail |-> entry.name]

\* the summary loop and exit(0 if success else 1)
Summary ==
    /\ pc = "summary"
    /\ report' = report \o [i \in 1..Len(results) |-> SummaryLine(results[i])]
    /\ status' = IF \A i \in 1..Len(results) : results[i].passed
                 THEN Exited(0) ELSE Exited(1)
    /\ pc' = "done"
    /\ UNCHANGED <<script, results, ran, argv, forwarded, child, errPipe, stderrQ, warm,
                   step, proc, signals, outPipe, emitted, pump, stdoutQ, elapsed, written,
                   rets, quiet>>

\* ---------------------------------------------------------------- wrappers
\* os.path.join(script_dir, "tools", <name of the script>)
NewLocation(s) ==
    IF s = "manual_wrapper" THEN "tools/manual_test.py" ELSE "tools/real_world_tests.py"

\* [sys.executable, new_location] + sys.argv[1:]
CommandLine(s, args) == <<"python", NewLocation(s)>> \o Tail(args)

\* how the forwarded script can end
ChildEndings == {Exited(n) : n \in {0, 1, 2, 255}} \cup {Signalled(n) : n \in {2, 9, 15}}

\* Popen.returncode: the exit code, or minus the number of the signal
Returncode(c) == IF c.kind = "signal" THEN 0 - c.n ELSE c.n

\* sys.exit(n): the low eight bits of n reach the parent
SysExit(n) == Exited(n % 256)

\* subprocess.call starts the script
WrapperCall ==
    /\ pc = "NotStarted"
    /\ script \in WrapperScripts
    /\ forwarded' = CommandLine(script, argv)
    /\ pc' = "child"
    /\ UNCHANGED <<script, results, ran, status, argv, child, errPipe, stderrQ, warm, step,
                   proc, signals, outPipe, emitted, pump, stdoutQ, elapsed, written, rets,
                   report, quiet>>

\* the script ends and subprocess.call returns
ChildEnds ==
    /\ pc = "child"
    /\ child' \in ChildEndings
    /\ pc' = "returned"
    /\ UNCHANGED <<script, results, ran, status, argv, forwarded, errPipe, stderrQ, warm,
                   step, proc, signals, outPipe, emitted, pump, stdoutQ, elapsed, written,
                   rets, report, quiet>>

\* sys.exit(subprocess.call(...))
WrapperExit ==
    /\ pc = "returned"
    /\ status' = SysExit(Returncode(child))
    /\ pc' = "done"
    /\ UNCHANGED <<script, results, ran, argv, forwarded, child, errPipe, stderrQ, warm,
                   step, proc, signals, outPipe, emitted, pump, stdoutQ, elapsed, written,
                   rets, report, quiet>>

\* ------------------------------------------------------------ manual_test
\* run_test starts the thread of read_output and sleeps three seconds
Watch ==
    /\ pc = "watch"
    /\ pump' = "running"
    /\ pc' = "finally"
    /\ UNCHANGED <<script, runVars, errPipe, stderrQ, warm, step, proc, signals, outPipe, emitted, stdoutQ, elapsed,
                   written, rets, report, quiet>>

\* read_output: one readline, whose line or end of stream is printed
ReadOutput ==
    /\ script \in WatchScripts
    /\ pump = "running"
    /\ pump' = "done"
    /\ IF outPipe # <<>>
       THEN /\ outPipe' = Tail(outPipe)
            /\ rets' = Append(rets, [step |-> step, req |-> ReqId(script, step),
                                     val |-> Value("output", NoId, "none", "none", NoError),
                                     how |-> "line"])
            /\ report' = Append(report, [step |-> step, out |-> "response", detail |-> ""])
       ELSE /\ proc = "exited"
            /\ rets' = Append(rets, [step |-> step, req |-> ReqId(script, step),
                                     val |-> NoResponse, how |-> "eof"])
            /\ report' = Append(report, [step |-> step, out |-> "no_response",
                                         detail |-> ""])
            /\ UNCHANGED outPipe
    /\ UNCHANGED <<script, runVars, errPipe, stderrQ, warm, pc, step, proc, signals, emitted, stdoutQ, elapsed,
                   written, quiet>>

\* ---------------------------------------------------- test_mcp_standalone
\* the lines of stdout that are not blank
NonBlank(lines) == SelectSeq(lines, LAMBDA l : l.form # "blank")

\* send_and_check: json.loads of the whole of stdout, stripped
CommunicateValue(lines) ==
    IF Len(NonBlank(lines)) = 1 /\ JsonLoads(NonBlank(lines)[1]).ok
       /\ JsonLoads(NonBlank(lines)[1]).val.member = "result"
    THEN JsonLoads(NonBlank(lines)[1]).val
    ELSE NoneVal

\* what send_and_check prints about stdout
CommunicatePrint(lines) ==
    IF NonBlank(lines) = <<>> THEN "no_response"
    ELSE IF Len(NonBlank(lines)) = 1 /\ JsonLoads(NonBlank(lines)[1]).ok
         THEN IF JsonLoads(NonBlank(lines)[1]).val.member = "result"
              THEN "success" ELSE "protocol_error"
         ELSE "json_error"

\* process.communicate(input=...): the request is written and stdin closed;
\* a broken pipe is passed over
Communicate ==
    /\ pc = "communicate"
    /\ report' = Append(report, [step |-> step, out |-> "description", detail |-> ""])
    /\ written' = IF proc = "running"
                  THEN Append(written, Frame(step, ReqId(script, step)))
                  ELSE written
    /\ quiet' = TRUE
    /\ pc' = "communicating"
    /\ UNCHANGED <<script, runVars, errPipe, stderrQ, warm, step, proc, signals, outPipe, emitted, pump, stdoutQ,
                   elapsed, rets>>

\* the server has exited: communicate returns all it wrote
CommunicateReturn ==
    /\ pc = "communicating"
    /\ proc = "exited"
    /\ rets' = Append(rets, [step |-> step, req |-> ReqId(script, step),
                             val |-> CommunicateValue(outPipe), how |-> "eof"])
    /\ report' = Append(report, [step |-> step, out |-> CommunicatePrint(outPipe),
                                 detail |-> ""])
    /\ outPipe' = <<>>
    /\ pc' = "Terminated"
    /\ UNCHANGED <<script, runVars, errPipe, stderrQ, warm, step, proc, signals, emitted, pump, stdoutQ, elapsed,
                   written, quiet>>

\* TimeoutExpired after ten seconds: process.kill()
CommunicateExpire ==
    /\ pc = "communicating"
    /\ proc = "running"
    /\ signals' = Append(signals, "KILL")
    /\ proc' = "exited"
    /\ rets' = Append(rets, [step |-> step, req |-> ReqId(script, step),
                             val |-> NoneVal, how |-> "timeout"])
    /\ report' = Append(report, [step |-> step, out |-> "timeout", detail |-> ""])
    /\ pc' = "Terminated"
    /\ UNCHANGED <<script, runVars, errPipe, stderrQ, warm, step, outPipe, emitted, pump, stdoutQ, elapsed,
                   written, quiet>>

\* ----------------------------------------------------- test_copy_workflow
\* subprocess.run(input=stdin_input): every command of the list is written
\* to the server at once
RunSession ==
    /\ pc = "batch"
    /\ \/ /\ written' = written \o [k \in 1..StepCount(script) |->
                                       Frame(k, ReqId(script, k))]
          /\ pc' = "session"
          /\ UNCHANGED report
       \/ /\ report' = Append(report, [step |-> 0, out |-> "exception", detail |-> ""])
          /\ pc' = "done"
          /\ UNCHANGED written
    /\ UNCHANGED <<script, runVars, errPipe, stderrQ, warm, step, proc, signals, outPipe, emitted, pump, stdoutQ,
                   elapsed, rets, quiet>>

\* the run is over: the lines of stdout that hold a result are printed
SessionEnd ==
    /\ pc = "session"
    /\ \E n \in 0..StepCount(script) :
          /\ rets' = rets \o [k \in 1..StepCount(script) |->
                               [step |-> k, req |-> ReqId(script, k),
                                val |-> IF k <= n
                                        THEN Value("response", k, "result", "none", NoError)
                                        ELSE NoneVal,
                                how |-> "run"]]
          /\ report' = report \o [k \in 1..n |->
                                   [step |-> k, out |-> "response", detail |-> ""]]
    /\ pc' = "done"
    /\ UNCHANGED <<script, runVars, errPipe, stderrQ, warm, step, proc, signals, outPipe, emitted, pump, stdoutQ,
                   elapsed, written, quiet>>

\* ------------------------------------------------------- server and threads
ServerEmit ==
    /\ proc = "running"
    /\ emitted < MaxLines
    /\ \E line \in EmitSet : outPipe' = Append(outPipe, line)
    /\ emitted' = emitted + 1
    /\ quiet' = FALSE
    /\ UNCHANGED <<script, runVars, errPipe, stderrQ, warm, pc, step, proc, signals, pump, stdoutQ, elapsed, written,
                   rets, report>>

\* scripts whose server has a stderr pipe that something must read
StderrPiped == ProcessScripts

\* scripts that start a read_stderr thread next to read_stdout
StderrPumpScripts == {"integration", "full_mcp", "with_events"}

\* the server writes a line to stderr and the pipe has room for it
ServerWriteErr ==
    /\ script \in StderrPiped
    /\ proc = "running"
    /\ errPipe < PipeCapacity
    /\ errPipe + stderrQ < MaxErrLines
    /\ errPipe' = errPipe + 1
    /\ UNCHANGED <<script, runVars, stderrQ, warm, pc, step, proc, signals, outPipe, emitted, pump,
                   stdoutQ, elapsed, written, rets, report, quiet>>

\* the server writes a line to stderr and the pipe is full: write() blocks
ServerBlocks ==
    /\ script \in StderrPiped
    /\ proc = "running"
    /\ errPipe = PipeCapacity
    /\ errPipe + stderrQ < MaxErrLines
    /\ proc' = "blocked"
    /\ UNCHANGED <<script, runVars, errPipe, stderrQ, warm, pc, step, signals, outPipe, emitted,
                   pump, stdoutQ, elapsed, written, rets, report, quiet>>

\* read_stderr: stderr_queue.put(line.strip()); the room it makes in the
\* pipe lets a blocked write complete
PumpErr ==
    /\ script \in StderrPumpScripts
    /\ errPipe > 0
    /\ stderrQ' = stderrQ + 1
    /\ IF proc = "blocked"
       THEN proc' = "running" /\ UNCHANGED errPipe
       ELSE errPipe' = errPipe - 1 /\ UNCHANGED proc
    /\ UNCHANGED <<script, runVars, warm, pc, step, signals, outPipe, emitted, pump, stdoutQ,
                   elapsed, written, rets, report, quiet>>

\* the server exits: by itself, on a crash, or on a signal; a server
\* blocked in a write leaves only on a signal
ServerExit ==
    /\ proc = "running" \/ (proc = "blocked" /\ signals # <<>>)
    /\ proc' = "exited"
    /\ UNCHANGED <<script, runVars, errPipe, stderrQ, warm, pc, step, signals, outPipe, emitted, pump, stdoutQ, elapsed,
                   written, rets, report, quiet>>

\* PumpLine putting the line it read in front of the lines that wait
PumpLineFront ==
    /\ script \in QueueScripts
    /\ pump = "running"
    /\ outPipe # <<>>
    /\ stdoutQ' = <<Strip(Head(outPipe))>> \o stdoutQ
    /\ outPipe' = Tail(outPipe)
    /\ UNCHANGED <<script, runVars, errPipe, stderrQ, warm, pc, step, proc, signals, emitted, pump, elapsed, written,
                   rets, report, quiet>>

\* read_stdout: stdout_queue.put(line.strip())
PumpLine ==
    /\ script \in QueueScripts
    /\ pump = "running"
    /\ outPipe # <<>>
    /\ stdoutQ' = Append(stdoutQ, Strip(Head(outPipe)))
    /\ outPipe' = Tail(outPipe)
    /\ UNCHANGED <<script, runVars, errPipe, stderrQ, warm, pc, step, proc, signals, emitted, pump, elapsed, written,
                   rets, report, quiet>>

\* readline returns '' and the for loop of read_stdout ends
PumpEof ==
    /\ script \in QueueScripts
    /\ pump = "running"
    /\ outPipe = <<>>
    /\ proc = "exited"
    /\ pump' = "done"
    /\ stdoutQ' = IF script = "full_mcp" THEN Append(stdoutQ, SentinelNone) ELSE stdoutQ
    /\ UNCHANGED <<script, runVars, errPipe, stderrQ, warm, pc, step, proc, signals, outPipe, emitted, elapsed, written,
                   rets, report, quiet>>

MainThread ==
    \/ Launch
    \/ LaunchFails
    \/ SkipCleanup
    \/ Watch
    \/ Communicate
    \/ CommunicateReturn
    \/ CommunicateExpire
    \/ RunSession
    \/ SessionEnd
    \/ WarmUp
    \/ SendRequest
    \/ Poll
    \/ Timeout
    \/ ReadLine
    \/ Inject
    \/ InjectPoll
    \/ InjectExpire
    \/ Terminate
    \/ WaitReturn
    \/ WaitExpire
    \/ StartScenario
    \/ ToolCall
    \/ BuildResults
    \/ RunSuite
    \/ Summary
    \/ WrapperCall
    \/ ChildEnds
    \/ WrapperExit

PumpThread ==
    \/ PumpLine
    \/ PumpEof
    \/ PumpErr
    \/ ReadOutput

Next ==
    \/ MainThread
    \/ PumpThread
    \/ ServerEmit
    \/ ServerWriteErr
    \/ ServerBlocks
    \/ ServerExit

Spec == Init /\ [][Next]_vars

\* the threads of the harness keep running; nothing obliges the server to
\* write or to exit
FairSpec == Spec /\ WF_vars(MainThread) /\ WF_vars(PumpThread)

\* ------------------------------------------------------------- vocabulary
\* the scenario has returned or raised
Ended == pc \in {"finally", "wait", "Terminated", "done", "crashed"}

Sent(k) == \E i \in 1..Len(written) : written[i].step = k

Resolved(k) == \E i \in 1..Len(rets) : rets[i].step = k

\* the id of a request occurs once among the requests written
UniqueId(id) == Cardinality({i \in 1..Len(written) : written[i].id = id}) = 1

\* a sender returns in this step
Returns == Len(rets') = Len(rets) + 1

Returned == rets'[Len(rets')]

\* what this step adds to the report
NewReport == SubSeq(report', Len(report) + 1, Len(report'))

\* numbers a step of a scenario can have (test_edge_cases is the longest)
StepNumbers == 1..ScriptSteps("edge_cases")

\* ------------------------------------------------------------------ claims
\* C1: a sender never returns a response that carries the id of another
\* request than the one it sent (the id being unique in the run)
C1_ReturnsResponseOfOwnId ==
    \A i \in 1..Len(rets) :
        ( /\ script \in {"edge_cases", "integration", "full_mcp"}
          /\ UniqueId(rets[i].req)
          /\ rets[i].val.t = "response"
          /\ rets[i].val.id # NoId )
        => rets[i].val.id = rets[i].req

\* C2: when exchange k timed out and the server writes the response to
\* request k while exchange k+1 is pending, the sender of k+1 discards that
\* line and keeps waiting
C2_LateResponseDiscarded ==
    [][ ( /\ script \in {"with_events", "performance"}
          /\ pc = "poll"
          /\ Len(rets) >= 1
          /\ rets[Len(rets)].how = "timeout"
          /\ stdoutQ # <<>>
          /\ stdoutQ' = Tail(stdoutQ)
          /\ Head(stdoutQ).late
          /\ Head(stdoutQ).member # "none"
          /\ Head(stdoutQ).id = rets[Len(rets)].req
          /\ Head(stdoutQ).id # ReqId(script, step) )
        => rets' = rets ]_vars

\* C3: every request written is eventually resolved, and no request is
\* resolved twice
C3_EveryRequestResolvedOnce ==
    /\ \A k \in StepNumbers : Sent(k) ~> Resolved(k)
    /\ [](\A i, j \in 1..Len(rets) : rets[i].step = rets[j].step => i = j)

\* C4: a sender returns Timeout when the server wrote nothing to stdout
\* since the request was sent
C4_SilentServerGivesTimeout ==
    [][ ( /\ script \in {"performance", "real_world"}
          /\ pc = "poll"
          /\ Returns
          /\ quiet
          /\ quiet' )
        => (Returned.how = "timeout" /\ Returned.val = NoneVal) ]_vars

\* outcomes printed for step k
OutcomesOf(k) ==
    {report[j].out : j \in {n \in 1..Len(report) : report[n].step = k}} \ {"description"}

\* C5: an exchange sent with expect_error whose response carries a result is
\* recorded as mismatch and never as success
C5_ExpectedErrorGotResultIsMismatch ==
    \A i \in 1..Len(rets) :
        ( /\ script = "edge_cases"
          /\ ExpectError(script, rets[i].step)
          /\ HasResult(rets[i].val) )
        => OutcomesOf(rets[i].step) = {"mismatch"}

C5_Witness ==
    /\ script = "edge_cases"
    /\ \E i \in 1..Len(rets) :
          /\ ExpectError(script, rets[i].step)
          /\ HasResult(rets[i].val)
          /\ "mismatch" \in OutcomesOf(rets[i].step)

C7_UnparseableLinesAreSkipped ==
    [][ ( /\ script \in {"edge_cases", "full_mcp"}
          /\ pc = "poll"
          /\ Returns
          /\ Returned.how = "line" )
        => /\ JsonLoads(Head(stdoutQ)).ok
           /\ Returned.val = JsonLoads(Head(stdoutQ)).val ]_vars

\* the result of step a holds the value a later request is built from
Provides(s, v) ==
    IF s = "integration"
    THEN HasResult(v) /\ v.payload = "avail"
    ELSE HasEventId(v)

\* C8: the request of a step that needs a value of an earlier result is
\* written only if that earlier step succeeded
C8_DependentStepNotWrittenAfterFailure ==
    \A i \in 1..Len(written) :
        Needs(script, written[i].step) # 0 =>
            /\ Resolved(Needs(script, written[i].step))
            /\ Provides(script, RetOf(rets, Needs(script, written[i].step)))

C8_Witness ==
    /\ Ended
    /\ \E k \in 1..StepCount(script) :
          /\ Needs(script, k) # 0
          /\ Resolved(Needs(script, k))
          /\ ~Provides(script, RetOf(rets, Needs(script, k)))
          /\ ~Sent(k)

\* C9: when a scenario has ended every one of its steps is in the report
C9_EveryStepReported ==
    (Ended /\ script \in {"integration"} \cup OneShotScripts) =>
        \A k \in 1..StepCount(script) : \E j \in 1..Len(report) : report[j].step = k

\* C10: once termination is requested the lifecycle reaches Terminated
C10_TerminationCompletes == (Len(signals) > 0) ~> (pc = "Terminated")

\* C11: when the harness has returned control after a launch, neither the
\* server nor a thread that reads its output is still running
C11_NothingLeftRunning ==
    (pc = "Terminated") => (proc = "exited" /\ pump # "running")

\* C12: no exchange ends with an exception leaving the sender
C12_NoExchangeRaises ==
    \A i \in 1..Len(rets) : rets[i].val # Raised

\* exchange i of rets was answered with an error response
AnsweredWithError(i) ==
    /\ rets[i].how = "line"
    /\ \/ rets[i].val.member = "error"
       \/ "error" \in OutcomesOf(rets[i].step)

\* C13: an exchange that timed out and an exchange answered with an error
\* differ in the value returned and in the outcome printed
C13_TimeoutDistinctFromProtocolError ==
    \A i, j \in 1..Len(rets) :
        ( /\ script \in {"real_world", "integration"}
          /\ rets[i].how = "timeout"
          /\ AnsweredWithError(j) )
        => /\ rets[i].val # rets[j].val
           /\ OutcomesOf(rets[i].step) # OutcomesOf(rets[j].step)

\* C14: a request for a server that has exited is not written, the scenario
\* goes to its finally block, whose first act is terminate, and nothing is
\* written from then on
C14_BrokenPipeEndsScenario ==
    /\ [][ ( /\ script \in ProcessScripts \cup WatchScripts
             /\ pc = "send"
             /\ proc = "exited"
             /\ pc' # pc )
           => (written' = written /\ pc' = "finally") ]_vars
    /\ [][ (pc = "finally" /\ proc # "none" /\ pc' # pc)
           => (signals' = Append(signals, "TERM") /\ written' = written) ]_vars
    /\ [][ (pc \in {"wait", "Terminated"}) => written' = written ]_vars

C14_Witness ==
    /\ script \in ProcessScripts
    /\ pc = "Terminated"
    /\ \E j \in 1..Len(report) :
          /\ report[j].out = "description"
          /\ ~Sent(report[j].step)
          /\ \A k \in 1..Len(report) : report[k].step <= report[j].step

\* C15: after a failed launch nothing is written and the server that does
\* not exist is neither signalled nor waited for
C15_LaunchFailureEndsRun ==
    (script \in LaunchScripts /\ pc # "NotStarted" /\ proc = "none")
        => (written = <<>> /\ signals = <<>> /\ pc \in {"finally", "failed"})

C15_Witness ==
    /\ script \in BlockingScripts \cup WatchScripts
    /\ pc = "failed"
    /\ proc = "none"
    /\ \E j \in 1..Len(report) : report[j].out = "exception"

\* the state of the lifecycle, as a rank in NotStarted, Running,
\* Terminating, Terminated
LifecycleRank ==
    IF proc = "none" THEN 0
    ELSE IF pc = "Terminated" THEN 3
    ELSE IF signals # <<>> THEN 2
    ELSE 1

\* C16: the lifecycle only moves forward, the first request is written after
\* the warm-up delay, and nothing is written once termination was requested
C16_LifecycleOrderAndWarmUp ==
    /\ []((script \in LaunchScripts /\ written # <<>>) => warm)
    /\ [][LifecycleRank' >= LifecycleRank]_vars
    /\ [][signals # <<>> => written' = written]_vars

\* the lines the server wrote that the sender has not taken
Untaken == stdoutQ \o outPipe

\* C17: when the one line written since the request was sent is not JSON,
\* the exchange ends as Timeout
C17_OnlyUnparseableLineGivesTimeout ==
    [][ ( /\ script \in {"full_mcp", "mcp", "with_events"}
          /\ step = 1
          /\ Returns
          /\ emitted = 1
          /\ ~quiet
          /\ Len(Untaken) = 1
          /\ Untaken[1].form \in {"text", "brace"} )
        => (Returned.how = "timeout" /\ Returned.val = NoneVal) ]_vars

\* C18: a JSON object with neither result nor error is never the line a
\* sender returns
C18_ObjectWithoutResultOrErrorDiscarded ==
    [][ ( /\ script \in {"integration", "with_events", "edge_cases"}
          /\ pc = "poll"
          /\ Returns
          /\ Returned.how = "line" )
        => Head(stdoutQ).member # "none" ]_vars

\* C19: taking an empty line never makes a sender return
C19_EmptyLineNeverResolves ==
    [][ ( \/ /\ script \in {"edge_cases", "full_mcp"}
             /\ pc = "poll"
             /\ stdoutQ # <<>>
             /\ stdoutQ' = Tail(stdoutQ)
             /\ Head(stdoutQ).form = "blank"
          \/ /\ script = "mcp"
             /\ pc = "readline"
             /\ outPipe # <<>>
             /\ outPipe' = Tail(outPipe)
             /\ Head(outPipe).form = "blank" )
        => ~Returns ]_vars

\* C20: a request is written only when every request written before it has
\* been resolved
C20_OneRequestAtATime ==
    \A j \in 1..Len(written) :
        \A i \in 1..(j - 1) : Resolved(written[i].step)

\* C21: while a sender waits for a response the server is stopped in a write
\* to its stderr pipe only where a read_stderr thread empties that pipe
C21_StderrAlwaysDrained ==
    (proc = "blocked" /\ pc \in {"poll", "readline", "inject_poll"})
        => script \in StderrPumpScripts

\* C22: no turn of a sender's polling loop takes a line from the stderr queue
C22_CorrelatorLeavesStderrQueue ==
    [][ pc = "poll" => stderrQ' >= stderrQ ]_vars

\* C23: a line leaves the stdout queue only in the polling loop of a sender
\* whose request is written and not yet resolved
C23_OnlyTheCorrelatorTakesLines ==
    [][ (stdoutQ # <<>> /\ stdoutQ' = Tail(stdoutQ))
        => (pc = "poll" /\ Pending) ]_vars

C25_SentinelClosesTheExchange ==
    /\ [][ (pump = "running" /\ pump' = "done")
           => stdoutQ' = Append(stdoutQ, SentinelNone) ]_vars
    /\ [][ ( /\ pc = "poll"
             /\ stdoutQ # <<>>
             /\ Head(stdoutQ) = SentinelNone
             /\ stdoutQ' = Tail(stdoutQ) )
           => Returns ]_vars

\* C26: every KILL follows a TERM sent to the same server
C26_KillOnlyAfterTerm ==
    \A i \in 1..Len(signals) :
        signals[i] = "KILL" => \E j \in 1..(i - 1) : signals[j] = "TERM"

\* C27: the malformed line is reported as handled only on a line the server
\* wrote after the malformed line reached it
C27_HandledOnlyOnReplyToInjection ==
    [][ ( /\ pc = "inject_poll"
          /\ \E j \in 1..Len(NewReport) : NewReport[j].out = "handled" )
        => ~quiet ]_vars

\* C28: a tool result whose text does not decode leaves the steps that do
\* not use it in place: the scenario goes on to write the next request
C28_FailedUnwrapLeavesOtherSteps ==
    [][ ( /\ script = "with_events"
          /\ Returns
          /\ HasResult(Returned.val)
          /\ Returned.val.payload = "bad"
          /\ step < StepCount(script) )
        => (pc' = "send" /\ step' = step + 1) ]_vars

Codes == {e.code : e \in ErrorObjects}

\* the response with another code in its error object
WithCode(v, c) == [v EXCEPT !.error = [@ EXCEPT !.code = c]]

\* C30: the outcome printed for an error response is the same whatever the
\* code of the error
C30_ErrorCodeDoesNotDecideOutcome ==
    [][ ( /\ Returns
          /\ Returned.val.t = "response"
          /\ Returned.val.member = "error" )
        => \A c \in Codes :
              /\ (script = "mcp" /\ LastOfMcp(step)) =>
                    (InvalidMethodCheck(WithCode(Returned.val, c))
                        = InvalidMethodCheck(Returned.val))
              /\ script = "edge_cases" =>
                    (Classify(WithCode(Returned.val, c), ExpectError(script, step))
                        = Classify(Returned.val, ExpectError(script, step))) ]_vars

\* C33: in real_world_tests a line that is a JSON response, taken from the
\* queue by the sender, makes the sender return
C33_FirstResponseEndsExchange ==
    [][ ( /\ script = "real_world"
          /\ pc = "poll"
          /\ stdoutQ # <<>>
          /\ stdoutQ' = Tail(stdoutQ)
          /\ Head(stdoutQ).form = "obj"
          /\ Head(stdoutQ).member \in {"result", "error"} )
        => Returns ]_vars

\* C34: when a scenario that creates events has ended, a delete was sent for
\* every event a create step returned
C34_EveryCreatedEventDeleted ==
    (pc \in {"done", "crashed"}) =>
        /\ script = "copy_format" =>
              \A k \in 1..4 : HasEventId(RetOf(rets, k)) => Resolved(k + 4)
        /\ script = "event_management" =>
              (HasEventId(RetOf(rets, 1)) => Resolved(3))

\* q is p followed by the lines that came after
IsPrefix(p, q) == Len(p) <= Len(q) /\ SubSeq(q, 1, Len(p)) = p

\* C35: a turn of the polling loop takes at most the head of the queue, an
\* exchange that ends takes nothing more than the line it returns on, and
\* between two exchanges the queue only grows at its end
C35_UnreadLinesAreKept ==
    /\ [][ (pc = "poll" /\ ~IsPrefix(stdoutQ, stdoutQ'))
           => (stdoutQ # <<>> /\ stdoutQ' = Tail(stdoutQ)) ]_vars
    /\ [][ (pc = "poll" /\ Returns /\ Returned.how = "timeout")
           => stdoutQ' = stdoutQ ]_vars
    /\ [][ (pc = "send" /\ script \in QueueScripts)
           => IsPrefix(stdoutQ, stdoutQ') ]_vars

\* an exchange has ended and a line it left waits for the next one
C35_Witness ==
    /\ script \in {"edge_cases", "performance", "integration"}
    /\ Len(rets) = 1
    /\ pc = "send"
    /\ stdoutQ # <<>>

\* C32: a call of the one-shot helper always gives its caller a value
C32_HelperNeverRaises ==
    [][ (pc = "tool" /\ Returns) => Returned.val # RaisedUnbound ]_vars

\* the suite called name has returned
HasRun(name) == \E j \in 1..Len(ran) : ran[j].name = name

\* C31: the results of run_all_tests hold an entry only for a suite that has
\* returned, and entries once added stay as they are
C31_ResultsFollowExecution ==
    /\ [](\A i \in 1..Len(results) : HasRun(results[i].name))
    /\ [][IsPrefix(results, results')]_vars

\* C36: the event management suite is printed as PASSED, and the script exits
\* with 0, only when the suite has run and its create call gave a payload
\* with success true
C36_PassedOnlyOnSuccess ==
    /\ \A j \in 1..Len(report) :
          (report[j].out = "PASSED" /\ report[j].detail = SuiteNames[1]) =>
              \E i \in 1..Len(ran) : ran[i].name = SuiteNames[1] /\ ran[i].ok
    /\ (script = "comprehensive" /\ status = Exited(0)) =>
          \E i \in 1..Len(ran) : ran[i].name = SuiteNames[1] /\ ran[i].ok

\* C37: a wrapper gives the script its own arguments and ends the way the
\* script ended
C37_WrapperForwardsArgsAndStatus ==
    (script \in WrapperScripts /\ pc = "done") =>
        /\ SubSeq(forwarded, 3, Len(forwarded)) = SubSeq(argv, 2, Len(argv))
        /\ forwarded[2] = NewLocation(script)
        /\ status = child

====
